---- MODULE Spec2Model ----
(***************************************************************************)
(* Model of the vacation planner's tool layer (src/agent/tools.py) and of  *)
(* the Streamlit sidebar that drives the payment gate (src/app.py).        *)
(*                                                                         *)
(* Python str values that the code inspects character by character (city   *)
(* names, dates, serialized interest lists) are sequences of one-character *)
(* strings; identifiers that are only compared for equality are strings.   *)
(* Ratings are in tenths (4.5 is 45); prices are whole currency units.     *)
(***************************************************************************)
EXTENDS Integers, Sequences, FiniteSets, TLC

\* ------------------------------------------------------------------------
\* Python str primitives used by the tools
\* ------------------------------------------------------------------------
Digits == <<"0","1","2","3","4","5","6","7","8","9">>

UpperAlpha == <<"A","B","C","D","E","F","G","H","I","J","K","L","M",
                "N","O","P","Q","R","S","T","U","V","W","X","Y","Z">>

LowerAlpha == <<"a","b","c","d","e","f","g","h","i","j","k","l","m",
                "n","o","p","q","r","s","t","u","v","w","x","y","z">>

InSeq(seq, c) == \E i \in 1..Len(seq) : seq[i] = c

IndexOf(seq, c) == CHOOSE i \in 1..Len(seq) : seq[i] = c

\* str.lower() / str.upper() on ASCII text
str_lower(s) ==
    [i \in 1..Len(s) |-> IF InSeq(UpperAlpha, s[i])
                         THEN LowerAlpha[IndexOf(UpperAlpha, s[i])]
                         ELSE s[i]]

str_upper(s) ==
    [i \in 1..Len(s) |-> IF InSeq(LowerAlpha, s[i])
                         THEN UpperAlpha[IndexOf(LowerAlpha, s[i])]
                         ELSE s[i]]

\* the `in` operator on two str values: substring containment
str_in(needle, hay) ==
    \E i \in 0..(Len(hay) - Len(needle)) :
        SubSeq(hay, i + 1, i + Len(needle)) = needle

\* code point of the characters the model uses (ASCII)
ord(c) ==
    IF InSeq(Digits, c) THEN 47 + IndexOf(Digits, c)
    ELSE IF InSeq(UpperAlpha, c) THEN 64 + IndexOf(UpperAlpha, c)
    ELSE IF InSeq(LowerAlpha, c) THEN 96 + IndexOf(LowerAlpha, c)
    ELSE IF c = " " THEN 32
    ELSE IF c = "\"" THEN 34
    ELSE IF c = "," THEN 44
    ELSE IF c = "-" THEN 45
    ELSE IF c = "/" THEN 47
    ELSE IF c = "[" THEN 91
    ELSE 93

\* ------------------------------------------------------------------------
\* datetime.strptime(text, "%Y-%m-%d") and date subtraction
\* ------------------------------------------------------------------------
AllDigits(s) == \A i \in 1..Len(s) : InSeq(Digits, s[i])

RECURSIVE DecimalValue(_)
DecimalValue(s) ==
    IF Len(s) = 0 THEN 0
    ELSE 10 * DecimalValue(SubSeq(s, 1, Len(s) - 1))
         + (IndexOf(Digits, s[Len(s)]) - 1)

is_leap(year) ==
    year % 4 = 0 /\ (year % 100 # 0 \/ year % 400 = 0)

DAYS_IN_MONTH == <<31, 28, 31, 30, 31, 30, 31, 31, 30, 31, 30, 31>>

days_in_month(year, month) ==
    IF month = 2 /\ is_leap(year) THEN 29 ELSE DAYS_IN_MONTH[month]

RECURSIVE days_before_month(_, _)
days_before_month(year, month) ==
    IF month = 1 THEN 0
    ELSE days_before_month(year, month - 1) + days_in_month(year, month - 1)

days_before_year(year) ==
    LET y == year - 1
    IN  y * 365 + (y \div 4) - (y \div 100) + (y \div 400)

ymd2ord(year, month, day) ==
    days_before_year(year) + days_before_month(year, month) + day

ValueError == [ok |-> FALSE]

\* The directive regexes: %Y is \d\d\d\d, %m is 1[0-2]|0[1-9]|[1-9],
\* %d is 3[01]|[12]\d|0[1-9]|[1-9]| [1-9]; the whole text must be consumed
\* and the day must exist in the month.
strptime(text) ==
    LET dashes == {i \in 1..Len(text) : text[i] = "-"}
    IN  IF Cardinality(dashes) # 2 THEN ValueError
        ELSE
          LET d1 == CHOOSE i \in dashes : \A j \in dashes : i <= j
              d2 == CHOOSE i \in dashes : \A j \in dashes : j <= i
              Y  == SubSeq(text, 1, d1 - 1)
              M  == SubSeq(text, d1 + 1, d2 - 1)
              D  == SubSeq(text, d2 + 1, Len(text))
              Dd == IF Len(D) = 2 /\ D[1] = " " THEN SubSeq(D, 2, 2) ELSE D
          IN  IF /\ Len(Y) = 4 /\ AllDigits(Y)
                 /\ Len(M) \in {1, 2} /\ AllDigits(M)
                 /\ DecimalValue(M) \in 1..12
                 /\ Len(D) \in {1, 2} /\ AllDigits(Dd)
                 /\ DecimalValue(Dd) \in 1..31
                 /\ (D # Dd => DecimalValue(Dd) \in 1..9)
                 /\ DecimalValue(Y) >= 1
                 /\ DecimalValue(Dd)
                      <= days_in_month(DecimalValue(Y), DecimalValue(M))
              THEN [ok |-> TRUE,
                    ordinal |-> ymd2ord(DecimalValue(Y), DecimalValue(M),
                                        DecimalValue(Dd))]
              ELSE ValueError

Oct01 == <<"2","0","2","5","-","1","0","-","0","1">>

Oct04 == <<"2","0","2","5","-","1","0","-","0","4">>

Oct31 == <<"2","0","2","5","-","1","0","-","3","1">>

Nov01 == <<"2","0","2","5","-","1","1","-","0","1">>

\* accepted by the %m and %d directives without zero padding
Oct4Unpadded == <<"2","0","2","5","-","1","0","-","4">>

\* no such day
Feb30 == <<"2","0","2","5","-","0","2","-","3","0">>

Slashed == <<"2","0","2","5","/","1","0","/","0","1">>

Soon == <<"s","o","o","n">>

\* the date texts passed to the tools
DateInputs == {Oct01, Oct04, Oct31, Nov01, Oct4Unpadded, Feb30, Slashed, Soon}

\* strptime tabulated over the date texts
strptime_of == [text \in DateInputs |-> strptime(text)]

\* (b - a).days for two parsed dates
timedelta_days(a, b) == b.ordinal - a.ordinal

\* ------------------------------------------------------------------------
\* Bounds of the model
\* ------------------------------------------------------------------------
\* browser sessions served by the one Streamlit process
Sessions == {"s1", "s2"}

\* chat messages kept per session before the history must be cleared
MaxMessages == 2

\* distinct booking references issued per process run
MaxBookings == 2

\* low end of random.randint(1000, 9999)
RandLo == 1000

\* catalog rows on the CGK -> DPS economy route / in Bali
FlightsOnRoute == 7

HotelsInCity == 7

ActivitiesInCity == 12

\* expenses in one planned_expenses list
MaxExpenses == 3

\* days in the calendar file
CalendarDays == 5

\* slice sizes of the search results
TopFlights == 5

TopHotels == 5

TopActivities == 10

\* ------------------------------------------------------------------------
\* Dataset Store: load_json_data and the mock catalogs
\* ------------------------------------------------------------------------
CGK == <<"C","G","K">>

DPS == <<"D","P","S">>

NRT == <<"N","R","T">>

UbudBali == <<"U","b","u","d",","," ","B","a","l","i">>

Tokyo == <<"T","o","k","y","o">>

\* the ways the catalog rows are priced and rated: rows get their price and
\* rating from their position through (i * mult + shift)
DataVariants == [mult : {1, 3}, shift : {0, 1}]

FlightId(i) == <<"FL", i>>

HotelId(i) == <<"HTL", i>>

\* flights_mock.json: other routes and classes around the CGK -> DPS rows
flights_mock(v) ==
    <<[flight_id |-> FlightId(0), origin |-> CGK, destination |-> NRT,
       class |-> "economy", price |-> 50, currency |-> "USD"]>>
    \o [i \in 1..FlightsOnRoute |->
         [flight_id |-> FlightId(i), origin |-> CGK, destination |-> DPS,
          class |-> "economy",
          price |-> 100 + 50 * ((i * v.mult + v.shift) % 4),
          currency |-> "USD"]]
    \o <<[flight_id |-> FlightId(FlightsOnRoute + 1), origin |-> CGK,
          destination |-> DPS, class |-> "business", price |-> 60,
          currency |-> "USD"],
         [flight_id |-> FlightId(FlightsOnRoute + 2), origin |-> DPS,
          destination |-> CGK, class |-> "economy", price |-> 70,
          currency |-> "USD"]>>

\* hotels_mock.json: a Tokyo hotel and a low-rated Bali hotel around the rows
hotels_mock(v) ==
    <<[hotel_id |-> HotelId(0), destination_city |-> Tokyo, rating |-> 50,
       price_per_night |-> 90, currency |-> "USD"]>>
    \o [i \in 1..HotelsInCity |->
         [hotel_id |-> HotelId(i), destination_city |-> UbudBali,
          rating |-> 40 + 5 * ((i * v.mult + v.shift) % 3),
          price_per_night |-> 100 + 50 * ((i * 3 + v.shift) % 4),
          currency |-> "USD"]]
    \o <<[hotel_id |-> HotelId(HotelsInCity + 1),
          destination_city |-> UbudBali, rating |-> 35,
          price_per_night |-> 40, currency |-> "USD"]>>

Beach == <<"b","e","a","c","h">>

Art == <<"a","r","t">>

Food == <<"f","o","o","d">>

Categories == <<Beach, Art, Food>>

ActivityId(i) == <<"ACT", i>>

\* activities_mock.json: a Tokyo activity before the Bali rows, whose
\* categories go round the three
activities_mock(v) ==
    <<[activity_id |-> ActivityId(0), destination_city |-> Tokyo,
       category |-> Art, rating |-> 49]>>
    \o [i \in 1..ActivitiesInCity |->
         [activity_id |-> ActivityId(i), destination_city |-> UbudBali,
          category |-> Categories[(i % 3) + 1],
          rating |-> 40 + 2 * ((i * v.mult + v.shift) % 5)]]

\* user_preferences.json, amounts in thousandths of the currency unit: the
\* variants with shift 1 configure no limit for hotels
user_preferences(v) ==
    [budget |->
       [total |-> 100000,
        currency |-> "USD",
        breakdown |-> IF v.shift = 0
                      THEN [flights |-> 60000, hotels |-> 50000]
                      ELSE [flights |-> 60000]]]

\* open() of a data file that is not there
FileNotFoundError == "FileNotFoundError"

\* ------------------------------------------------------------------------
\* State
\* ------------------------------------------------------------------------
VARIABLES
    PAYMENT_AUTHORIZED,   \* os.environ['PAYMENT_AUTHORIZED'], or "unset"
    payment_configured,   \* st.session_state.payment_configured, per session
    payment_info,         \* st.session_state.payment_info, per session
    messages,             \* st.session_state.messages, per session (roles)
    bookings,             \* st.session_state.bookings, per session
    pc,                   \* where each session's script run is
    data,                 \* the data directory: files present, and variant
    request,              \* the tool call the conversation is about to ask for
    issued,               \* the booking references returned so far
    last                  \* the last operation: its inputs and its result

vars == <<PAYMENT_AUTHORIZED, payment_configured, payment_info, messages,
          bookings, pc, data, request, issued, last>>

\* what no handler and no tool writes
fixed == <<data, request>>

ui_vars == <<payment_configured, payment_info, messages, bookings, pc>>

NoOp == [op |-> "none", session |-> "none", args |-> <<>>,
         result |-> [none |-> TRUE]]

\* app.py session-state initialisation; the process starts without the
\* PAYMENT_AUTHORIZED variable
InitApp ==
    /\ PAYMENT_AUTHORIZED = "unset"
    /\ payment_configured = [s \in Sessions |-> FALSE]
    /\ payment_info = [s \in Sessions |-> [empty |-> TRUE]]
    /\ messages = [s \in Sessions |-> <<>>]
    /\ bookings = [s \in Sessions |-> <<>>]
    /\ pc = [s \in Sessions |-> "idle"]
    /\ issued = {}
    /\ last = NoOp

NoRequest == [tool |-> "any"]

Init ==
    /\ InitApp
    /\ data \in [present : BOOLEAN, variant : {[mult |-> 1, shift |-> 0]}]
    /\ request = NoRequest

\* ------------------------------------------------------------------------
\* Sidebar and chat handlers (src/app.py)
\* ------------------------------------------------------------------------
CompleteForm ==
    [card_number |-> <<"4","2","4","2","7">>,
     expiry |-> <<"1","2","/","2","7">>,
     cvv |-> <<"1","2","3">>,
     cardholder |-> <<"A","n","n">>,
     authorize |-> TRUE]

\* the submitted forms: complete, or with one input left out
Forms ==
    {CompleteForm,
     [CompleteForm EXCEPT !.card_number = <<>>],
     [CompleteForm EXCEPT !.expiry = <<>>],
     [CompleteForm EXCEPT !.cvv = <<>>],
     [CompleteForm EXCEPT !.cardholder = <<>>],
     [CompleteForm EXCEPT !.authorize = FALSE]}

\* the form test without the authorize box
FormComplete_without_authorize(form) ==
    /\ form.card_number # <<>>
    /\ form.expiry # <<>>
    /\ form.cvv # <<>>
    /\ form.cardholder # <<>>

FormComplete(form) ==
    /\ form.card_number # <<>>
    /\ form.expiry # <<>>
    /\ form.cvv # <<>>
    /\ form.cardholder # <<>>
    /\ form.authorize

card_last4(card_number) ==
    IF Len(card_number) >= 4
    THEN SubSeq(card_number, Len(card_number) - 3, Len(card_number))
    ELSE <<"*","*","*","*">>

\* "Save Payment Info" submitted: the form is rendered only while the
\* session is not configured
save_payment_info(s, form) ==
    /\ pc[s] = "idle"
    /\ ~payment_configured[s]
    /\ IF FormComplete(form)
       THEN /\ payment_configured' = [payment_configured EXCEPT ![s] = TRUE]
            /\ payment_info' = [payment_info EXCEPT ![s] =
                   [card_last4 |-> card_last4(form.card_number),
                    cardholder |-> form.cardholder,
                    authorized |-> TRUE]]
            /\ PAYMENT_AUTHORIZED' = "true"
            /\ last' = [op |-> "save_payment_info", session |-> s,
                        args |-> form, result |-> [notice |-> "success"]]
       ELSE /\ UNCHANGED <<payment_configured, payment_info,
                           PAYMENT_AUTHORIZED>>
            /\ last' = [op |-> "save_payment_info", session |-> s,
                        args |-> form, result |-> [notice |-> "error"]]
    /\ UNCHANGED <<messages, bookings, pc, fixed, issued>>

\* "Update Payment Info" pressed: the button is rendered only while the
\* session is configured
update_payment_info(s) ==
    /\ pc[s] = "idle"
    /\ payment_configured[s]
    /\ payment_configured' = [payment_configured EXCEPT ![s] = FALSE]
    /\ payment_info' = [payment_info EXCEPT ![s] = [empty |-> TRUE]]
    /\ PAYMENT_AUTHORIZED' = "unset"
    /\ last' = [op |-> "update_payment_info", session |-> s, args |-> <<>>,
                result |-> [rerun |-> TRUE]]
    /\ UNCHANGED <<messages, bookings, pc, fixed, issued>>

\* "Clear Chat History" pressed
clear_chat_history(s) ==
    /\ pc[s] = "idle"
    /\ messages' = [messages EXCEPT ![s] = <<>>]
    /\ bookings' = [bookings EXCEPT ![s] = <<>>]
    /\ last' = [op |-> "clear_chat_history", session |-> s, args |-> <<>>,
                result |-> [rerun |-> TRUE]]
    /\ UNCHANGED <<PAYMENT_AUTHORIZED, payment_configured, payment_info, pc,
                   fixed, issued>>

\* a prompt is entered: the user message is appended and the agent invoked
chat_input(s) ==
    /\ pc[s] = "idle"
    /\ Len(messages[s]) + 2 <= MaxMessages
    /\ messages' = [messages EXCEPT ![s] = Append(@, "user")]
    /\ pc' = [pc EXCEPT ![s] = "agent"]
    /\ last' = [op |-> "chat_input", session |-> s, args |-> <<>>,
                result |-> [invoked |-> TRUE]]
    /\ UNCHANGED <<PAYMENT_AUTHORIZED, payment_configured, payment_info,
                   bookings, fixed, issued>>

\* the agent returns: the assistant message is appended, and a booking is
\* recorded when the message text reads as a confirmation
agent_response(s, reads_as_confirmation) ==
    /\ pc[s] = "agent"
    /\ messages' = [messages EXCEPT ![s] = Append(@, "assistant")]
    /\ bookings' = [bookings EXCEPT ![s] =
           IF reads_as_confirmation THEN Append(@, "booking") ELSE @]
    /\ pc' = [pc EXCEPT ![s] = "idle"]
    /\ last' = [op |-> "agent_response", session |-> s, args |-> <<>>,
                result |-> [recorded |-> reads_as_confirmation]]
    /\ UNCHANGED <<PAYMENT_AUTHORIZED, payment_configured, payment_info,
                   fixed, issued>>

\* ------------------------------------------------------------------------
\* Booking tools (src/agent/tools.py)
\* ------------------------------------------------------------------------
\* identifiers and dates the agent passes to the booking tools
FlightIdInputs == {FlightId(1), FlightId(99), HotelId(1)}

HotelIdInputs == {HotelId(1), HotelId(99)}

\* <<check_in, check_out>>: three nights, minus three, none, and a text
\* that is no date on either side
BookDateInputs ==
    {<<Oct01, Oct04>>, <<Oct04, Oct01>>, <<Oct01, Oct01>>,
     <<Soon, Oct04>>, <<Oct01, Soon>>}

\* two of the values random.randint(1000, 9999) returns
Suffixes == {RandLo, RandLo + 1}

\* f"BK-{id}-{n}"
BookingReference(id, n) == <<"BK", id, n>>

PaymentRequired ==
    [booking_status |-> "failed",
     message |-> <<"Payment information required">>,
     action_required |-> "setup_payment"]

BookingFailed(exc) ==
    [booking_status |-> "failed", error |-> <<"Booking failed", exc>>]

\* next((r for r in rows if r[key] == id), None): index of the first match,
\* 0 for None
FirstFlight(rows, id) ==
    IF \E i \in 1..Len(rows) : rows[i].flight_id = id
    THEN CHOOSE i \in 1..Len(rows) :
           /\ rows[i].flight_id = id
           /\ \A j \in 1..(i - 1) : rows[j].flight_id # id
    ELSE 0

FirstHotel(rows, id) ==
    IF \E i \in 1..Len(rows) : rows[i].hotel_id = id
    THEN CHOOSE i \in 1..Len(rows) :
           /\ rows[i].hotel_id = id
           /\ \A j \in 1..(i - 1) : rows[j].hotel_id # id
    ELSE 0

\* book_flight with the catalog loaded and searched before the gate is read
book_flight_result_lookup_first(flight_id, n) ==
    IF ~data.present THEN BookingFailed(FileNotFoundError)
    ELSE IF FirstFlight(flights_mock(data.variant), flight_id) = 0
    THEN [booking_status |-> "failed",
          message |-> <<"Flight not found", flight_id>>]
    ELSE IF PAYMENT_AUTHORIZED # "true" THEN PaymentRequired
    ELSE [booking_status |-> "confirmed",
          booking_reference |-> BookingReference(flight_id, n),
          flight_details |-> [flight_id |-> flight_id],
          total_charged |->
              flights_mock(data.variant)[
                  FirstFlight(flights_mock(data.variant), flight_id)].price,
          currency |-> "USD",
          message |-> <<"Flight booked successfully",
                        BookingReference(flight_id, n)>>]

\* body of book_flight; n is what random.randint returns when it is reached
book_flight_result(flight_id, n) ==
    IF PAYMENT_AUTHORIZED # "true" THEN PaymentRequired
    ELSE IF ~data.present THEN BookingFailed(FileNotFoundError)
    ELSE
      LET flights == flights_mock(data.variant)
          i == FirstFlight(flights, flight_id)
      IN  IF i = 0
          THEN [booking_status |-> "failed",
                message |-> <<"Flight not found", flight_id>>]
          ELSE [booking_status |-> "confirmed",
                booking_reference |-> BookingReference(flight_id, n),
                flight_details |-> [flight_id |-> flights[i].flight_id],
                total_charged |-> flights[i].price,
                currency |-> flights[i].currency,
                message |-> <<"Flight booked successfully",
                              BookingReference(flight_id, n)>>]

\* nights as book_hotel counts them, the check-out day included
book_hotel_nights_inclusive(check_in_date, check_out_date) ==
    timedelta_days(check_in_date, check_out_date) + 1

\* nights computed by book_hotel
book_hotel_nights(check_in_date, check_out_date) ==
    timedelta_days(check_in_date, check_out_date)

\* book_hotel without the gate check
book_hotel_result_no_gate(hotel_id, check_in, check_out, n) ==
    IF ~data.present THEN BookingFailed(FileNotFoundError)
    ELSE IF FirstHotel(hotels_mock(data.variant), hotel_id) = 0
    THEN [booking_status |-> "failed",
          message |-> <<"Hotel not found", hotel_id>>]
    ELSE IF ~strptime_of[check_in].ok \/ ~strptime_of[check_out].ok
    THEN BookingFailed("ValueError")
    ELSE [booking_status |-> "confirmed",
          booking_reference |-> BookingReference(hotel_id, n),
          check_in |-> check_in,
          check_out |-> check_out,
          nights |-> timedelta_days(strptime_of[check_in],
                                    strptime_of[check_out]),
          total_charged |->
              hotels_mock(data.variant)[
                  FirstHotel(hotels_mock(data.variant), hotel_id)
              ].price_per_night
              * timedelta_days(strptime_of[check_in], strptime_of[check_out]),
          currency |-> "USD",
          message |-> <<"Hotel booked successfully",
                        BookingReference(hotel_id, n)>>]

\* book_hotel with the dates parsed before the hotel is looked up
book_hotel_result_dates_first(hotel_id, check_in, check_out, n) ==
    IF PAYMENT_AUTHORIZED # "true" THEN PaymentRequired
    ELSE IF ~data.present THEN BookingFailed(FileNotFoundError)
    ELSE IF ~strptime_of[check_in].ok \/ ~strptime_of[check_out].ok
    THEN BookingFailed("ValueError")
    ELSE IF FirstHotel(hotels_mock(data.variant), hotel_id) = 0
    THEN [booking_status |-> "failed",
          message |-> <<"Hotel not found", hotel_id>>]
    ELSE [booking_status |-> "confirmed",
          booking_reference |-> BookingReference(hotel_id, n),
          check_in |-> check_in,
          check_out |-> check_out,
          nights |-> timedelta_days(strptime_of[check_in],
                                    strptime_of[check_out]),
          total_charged |->
              hotels_mock(data.variant)[
                  FirstHotel(hotels_mock(data.variant), hotel_id)
              ].price_per_night
              * timedelta_days(strptime_of[check_in], strptime_of[check_out]),
          currency |-> "USD",
          message |-> <<"Hotel booked successfully",
                        BookingReference(hotel_id, n)>>]

\* body of book_hotel
book_hotel_result(hotel_id, check_in, check_out, n) ==
    IF PAYMENT_AUTHORIZED # "true" THEN PaymentRequired
    ELSE IF ~data.present THEN BookingFailed(FileNotFoundError)
    ELSE
      LET hotels == hotels_mock(data.variant)
          i == FirstHotel(hotels, hotel_id)
          check_in_date == strptime_of[check_in]
          check_out_date == strptime_of[check_out]
      IN  IF i = 0
          THEN [booking_status |-> "failed",
                message |-> <<"Hotel not found", hotel_id>>]
          ELSE IF ~check_in_date.ok \/ ~check_out_date.ok
          THEN BookingFailed("ValueError")
          ELSE
            LET nights == book_hotel_nights(check_in_date, check_out_date)
            IN  [booking_status |-> "confirmed",
                 booking_reference |-> BookingReference(hotel_id, n),
                 hotel_details |-> [hotel_id |-> hotels[i].hotel_id,
                                    rating |-> hotels[i].rating],
                 check_in |-> check_in,
                 check_out |-> check_out,
                 nights |-> nights,
                 total_charged |-> hotels[i].price_per_night * nights,
                 currency |-> hotels[i].currency,
                 message |-> <<"Hotel booked successfully",
                               BookingReference(hotel_id, n)>>]

Confirmed(result) ==
    /\ "booking_status" \in DOMAIN result
    /\ result.booking_status = "confirmed"

\* the references returned so far, with the one a confirmed result carries
Issue(result) ==
    IF Confirmed(result) THEN issued \cup {result.booking_reference}
    ELSE issued

\* the agent of session s calls book_flight
book_flight(s, flight_id) ==
    /\ pc[s] = "agent"
    /\ \E n \in Suffixes :
         LET result == book_flight_result(flight_id, n)
         IN  /\ Cardinality(Issue(result)) <= MaxBookings
             /\ issued' = Issue(result)
             /\ last' = [op |-> "book_flight", session |-> s,
                         args |-> [flight_id |-> flight_id],
                         result |-> result]
    /\ UNCHANGED <<PAYMENT_AUTHORIZED, ui_vars, fixed>>

\* the agent of session s calls book_hotel
book_hotel(s, hotel_id, check_in, check_out) ==
    /\ pc[s] = "agent"
    /\ \E n \in Suffixes :
         LET result == book_hotel_result(hotel_id, check_in, check_out, n)
         IN  /\ Cardinality(Issue(result)) <= MaxBookings
             /\ issued' = Issue(result)
             /\ last' = [op |-> "book_hotel", session |-> s,
                         args |-> [hotel_id |-> hotel_id,
                                   check_in |-> check_in,
                                   check_out |-> check_out],
                         result |-> result]
    /\ UNCHANGED <<PAYMENT_AUTHORIZED, ui_vars, fixed>>

\* ------------------------------------------------------------------------
\* Search tools (src/agent/tools.py)
\* ------------------------------------------------------------------------
\* comparison of two key tuples of equal length, as Python compares tuples
RECURSIVE TupleLess(_, _)
TupleLess(a, b) ==
    IF Len(a) = 0 THEN FALSE
    ELSE IF a[1] # b[1] THEN a[1] < b[1]
    ELSE TupleLess(Tail(a), Tail(b))

\* list.sort(key=...): the stable ascending sort; keys[i] is the key of
\* items[i], and an item goes after the items with a smaller key or with an
\* equal key and an earlier place
list_sort(items, keys) ==
    LET n == Len(items)
        before(i) == {j \in 1..n : \/ TupleLess(keys[j], keys[i])
                                   \/ (keys[j] = keys[i] /\ j < i)}
    IN  [r \in 1..n |-> items[CHOOSE i \in 1..n : Cardinality(before(i)) = r - 1]]

\* items[:k]
Slice(items, k) == SubSeq(items, 1, IF Len(items) < k THEN Len(items) ELSE k)

\* [f(x) for x in rows if keep(x)], by the places kept
RECURSIVE Kept(_, _)
Kept(rows, keep) ==
    IF Len(rows) = 0 THEN <<>>
    ELSE LET rest == Kept(SubSeq(rows, 1, Len(rows) - 1), keep)
         IN  IF Len(rows) \in keep THEN Append(rest, rows[Len(rows)])
             ELSE rest

city_to_airport ==
    {<<<<"j","a","k","a","r","t","a">>, CGK>>,
     <<<<"b","a","l","i">>, DPS>>,
     <<<<"d","e","n","p","a","s","a","r">>, DPS>>,
     <<<<"t","o","k","y","o">>, NRT>>,
     <<<<"p","a","r","i","s">>, <<"C","D","G">>>>,
     <<<<"b","a","r","c","e","l","o","n","a">>, <<"B","C","N">>>>,
     <<<<"s","a","n","t","o","r","i","n","i">>, <<"J","T","R">>>>}

\* the table looked up with the name as it was typed
airport_code_case_sensitive(name) ==
    IF \E e \in city_to_airport : e[1] = name
    THEN (CHOOSE e \in city_to_airport : e[1] = name)[2]
    ELSE str_upper(name)

\* city_to_airport.get(name.lower(), name.upper())
airport_code(name) ==
    IF \E e \in city_to_airport : e[1] = str_lower(name)
    THEN (CHOOSE e \in city_to_airport : e[1] = str_lower(name))[2]
    ELSE str_upper(name)

SearchFailed(what, exc) == [error |-> <<what, exc>>]

\* an argument that is not a str (None): a str is a sequence of characters,
\* and this is a sequence that holds the name of a type
NotAStr == <<"NoneType">>

isinstance_str(x) == ~(Len(x) = 1 /\ x[1] = "NoneType")

\* the call ends with the exception leaving the function
Raised(exc) == [raised |-> exc]

\* body of search_flights
search_flights_result(origin, destination, passengers, travel_class) ==
    LET origin_code == airport_code(origin)
        destination_code == airport_code(destination)
    IN  IF ~isinstance_str(origin) \/ ~isinstance_str(destination)
        THEN Raised("AttributeError")
        ELSE IF ~data.present
        THEN SearchFailed("Failed to search flights", FileNotFoundError)
        ELSE
          LET flights == flights_mock(data.variant)
              priced == [i \in 1..Len(flights) |->
                          [flight_id |-> flights[i].flight_id,
                           origin |-> flights[i].origin,
                           destination |-> flights[i].destination,
                           class |-> flights[i].class,
                           price |-> flights[i].price,
                           currency |-> flights[i].currency,
                           total_price |-> flights[i].price * passengers,
                           passengers |-> passengers]]
              matching_flights ==
                  Kept(priced,
                       {i \in 1..Len(flights) :
                          /\ flights[i].origin = origin_code
                          /\ flights[i].destination = destination_code
                          /\ flights[i].class = travel_class})
          IN  IF matching_flights = <<>>
              THEN [flights |-> <<>>,
                    message |-> <<"No flights found", origin_code,
                                  destination_code>>]
              ELSE [flights |->
                        Slice(list_sort(matching_flights,
                                  [i \in 1..Len(matching_flights) |->
                                     <<matching_flights[i].total_price>>]),
                              TopFlights),
                    total_results |-> Len(matching_flights)]

\* the agent of session s calls search_flights
search_flights(s, origin, destination, passengers, travel_class) ==
    /\ pc[s] = "agent"
    /\ last' = [op |-> "search_flights", session |-> s,
                args |-> [origin |-> origin, destination |-> destination,
                          passengers |-> passengers,
                          travel_class |-> travel_class],
                result |-> search_flights_result(origin, destination,
                                                 passengers, travel_class)]
    /\ UNCHANGED <<PAYMENT_AUTHORIZED, ui_vars, fixed, issued>>

\* nights as search_hotels counts them, one too many
search_hotels_nights_inclusive(check_in_date, check_out_date) ==
    timedelta_days(check_in_date, check_out_date) + 1

\* nights as search_hotels counts them, never fewer than none
search_hotels_nights_clamped(check_in_date, check_out_date) ==
    IF timedelta_days(check_in_date, check_out_date) < 0 THEN 0
    ELSE timedelta_days(check_in_date, check_out_date)

\* nights computed by search_hotels
search_hotels_nights(check_in_date, check_out_date) ==
    timedelta_days(check_in_date, check_out_date)

\* body of search_hotels
search_hotels_result(destination, check_in, check_out, guests, min_rating) ==
    IF ~data.present
    THEN SearchFailed("Failed to search hotels", FileNotFoundError)
    ELSE IF ~strptime_of[check_in].ok \/ ~strptime_of[check_out].ok
    THEN SearchFailed("Failed to search hotels", "ValueError")
    ELSE IF /\ ~isinstance_str(destination)
            /\ Len(hotels_mock(data.variant)) > 0
    THEN SearchFailed("Failed to search hotels", "AttributeError")
    ELSE
      LET hotels == hotels_mock(data.variant)
          nights == search_hotels_nights(strptime_of[check_in],
                                         strptime_of[check_out])
          priced == [i \in 1..Len(hotels) |->
                      [hotel_id |-> hotels[i].hotel_id,
                       destination_city |-> hotels[i].destination_city,
                       rating |-> hotels[i].rating,
                       price_per_night |-> hotels[i].price_per_night,
                       currency |-> hotels[i].currency,
                       nights |-> nights,
                       total_price |-> hotels[i].price_per_night * nights,
                       check_in |-> check_in,
                       check_out |-> check_out]]
          matching_hotels ==
              Kept(priced,
                   {i \in 1..Len(hotels) :
                      /\ str_in(str_lower(destination),
                                str_lower(hotels[i].destination_city))
                      /\ hotels[i].rating >= min_rating})
      IN  IF matching_hotels = <<>>
          THEN [hotels |-> <<>>,
                message |-> <<"No hotels found", destination>>]
          ELSE [hotels |->
                    Slice(list_sort(matching_hotels,
                              [i \in 1..Len(matching_hotels) |->
                                 <<-matching_hotels[i].rating,
                                   matching_hotels[i].total_price>>]),
                          TopHotels),
                total_results |-> Len(matching_hotels)]

\* the agent of session s calls search_hotels
search_hotels(s, destination, check_in, check_out, guests, min_rating) ==
    /\ pc[s] = "agent"
    /\ last' = [op |-> "search_hotels", session |-> s,
                args |-> [destination |-> destination,
                          check_in |-> check_in, check_out |-> check_out,
                          guests |-> guests, min_rating |-> min_rating],
                result |-> search_hotels_result(destination, check_in,
                                                check_out, guests,
                                                min_rating)]
    /\ UNCHANGED <<PAYMENT_AUTHORIZED, ui_vars, fixed, issued>>

\* json.loads on a text that starts with "[": an array of strings without
\* escapes, blanks allowed around the items; anything else the model passes
\* is no JSON
JSONDecodeError == [ok |-> FALSE]

\* place of the first '"' at or after i, 0 if there is none
NextQuote(text, i) ==
    IF \E j \in i..Len(text) : text[j] = "\""
    THEN CHOOSE j \in i..Len(text) :
           /\ text[j] = "\""
           /\ \A k \in i..(j - 1) : text[k] # "\""
    ELSE 0

RECURSIVE ParseArray(_, _, _, _)
ParseArray(text, i, acc, expect) ==
    IF i > Len(text) THEN JSONDecodeError
    ELSE IF text[i] = " " THEN ParseArray(text, i + 1, acc, expect)
    ELSE IF expect = "end" THEN JSONDecodeError
    ELSE IF text[i] = "]" /\ expect \in {"first", "separator"}
    THEN IF \A k \in (i + 1)..Len(text) : text[k] = " "
         THEN [ok |-> TRUE, value |-> acc]
         ELSE JSONDecodeError
    ELSE IF text[i] = "," /\ expect = "separator"
    THEN ParseArray(text, i + 1, acc, "item")
    ELSE IF text[i] = "\"" /\ expect \in {"first", "item"}
    THEN LET j == NextQuote(text, i + 1)
         IN  IF j = 0 THEN JSONDecodeError
             ELSE ParseArray(text, j + 1,
                             Append(acc, SubSeq(text, i + 1, j - 1)),
                             "separator")
    ELSE JSONDecodeError

json_loads(text) == ParseArray(text, 2, <<>>, "first")

\* the interests argument: None, a str or a list of str
None == [kind |-> "None"]

Str(text) == [kind |-> "str", text |-> text]

List(items) == [kind |-> "list", items |-> items]

\* the conversion without the test for a leading "["
normalize_interests_never_decoding(interests) ==
    IF interests.kind = "str" THEN List(<<interests.text>>) ELSE interests

\* the conversion of a str argument at the top of search_activities
normalize_interests(interests) ==
    IF interests.kind = "str"
    THEN IF Len(interests.text) > 0 /\ interests.text[1] = "["
         THEN IF json_loads(interests.text).ok
              THEN List(json_loads(interests.text).value)
              ELSE None
         ELSE List(<<interests.text>>)
    ELSE interests

\* `if interests:` on None or a list
Truthy(interests) == interests.kind = "list" /\ Len(interests.items) > 0

\* search_activities with an error result when nothing matches
search_activities_result_error_on_none(destination, interests_arg) ==
    LET interests == normalize_interests(interests_arg)
    IN  IF ~data.present
        THEN SearchFailed("Failed to search activities", FileNotFoundError)
        ELSE IF /\ ~isinstance_str(destination)
                /\ Len(activities_mock(data.variant)) > 0
        THEN SearchFailed("Failed to search activities", "AttributeError")
        ELSE
          LET activities == activities_mock(data.variant)
              matching_activities ==
                  Kept(activities,
                       {i \in 1..Len(activities) :
                          /\ str_in(str_lower(destination),
                                    str_lower(activities[i].destination_city))
                          /\ (Truthy(interests) =>
                                InSeq(interests.items,
                                      activities[i].category))})
          IN  IF matching_activities = <<>>
              THEN SearchFailed("Failed to search activities",
                                "No activities found")
              ELSE [activities |->
                        Slice(list_sort(matching_activities,
                                  [i \in 1..Len(matching_activities) |->
                                     <<-matching_activities[i].rating>>]),
                              TopActivities),
                    total_results |-> Len(matching_activities)]

\* body of search_activities
search_activities_result(destination, interests_arg) ==
    LET interests == normalize_interests(interests_arg)
    IN  IF ~data.present
        THEN SearchFailed("Failed to search activities", FileNotFoundError)
        ELSE IF /\ ~isinstance_str(destination)
                /\ Len(activities_mock(data.variant)) > 0
        THEN SearchFailed("Failed to search activities", "AttributeError")
        ELSE
          LET activities == activities_mock(data.variant)
              matching_activities ==
                  Kept(activities,
                       {i \in 1..Len(activities) :
                          /\ str_in(str_lower(destination),
                                    str_lower(activities[i].destination_city))
                          /\ (Truthy(interests) =>
                                InSeq(interests.items,
                                      activities[i].category))})
          IN  IF matching_activities = <<>>
              THEN [activities |-> <<>>,
                    message |-> <<"No activities found", destination>>]
              ELSE [activities |->
                        Slice(list_sort(matching_activities,
                                  [i \in 1..Len(matching_activities) |->
                                     <<-matching_activities[i].rating>>]),
                              TopActivities),
                    total_results |-> Len(matching_activities)]

\* the agent of session s calls search_activities
search_activities(s, destination, interests) ==
    /\ pc[s] = "agent"
    /\ last' = [op |-> "search_activities", session |-> s,
                args |-> [destination |-> destination,
                          interests |-> interests],
                result |-> search_activities_result(destination, interests)]
    /\ UNCHANGED <<PAYMENT_AUTHORIZED, ui_vars, fixed, issued>>

\* ------------------------------------------------------------------------
\* Calendar and preferences tools (src/agent/tools.py)
\* ------------------------------------------------------------------------
\* a < b on str: the first place where they differ decides, and a str is
\* less than the ones it begins
str_lt(a, b) ==
    \E k \in 1..Len(b) :
        /\ k <= Len(a) + 1
        /\ \A j \in 1..(k - 1) : a[j] = b[j]
        /\ (k = Len(a) + 1 \/ ord(a[k]) < ord(b[k]))

\* a <= b on str, the equal ones left out
str_le_strict(a, b) == str_lt(a, b)

\* a <= b on str
str_le(a, b) == a = b \/ str_lt(a, b)

\* the d-th day of October 2025, d below 10
CalendarDate(d) == <<"2","0","2","5","-","1","0","-","0", Digits[d + 1]>>

\* user_calendar.json: the days in the order of the file with their status,
\* every third one blocked by an event; in the variants with shift 1 the
\* second day is tentative and the fourth has an event without being blocked
calendar_mock(v) ==
    [availability |->
        [d \in 1..CalendarDays |->
           [date |-> CalendarDate(d),
            status |-> IF d % 3 = 0 THEN "blocked"
                       ELSE IF d = 2 /\ v.shift = 1 THEN "tentative"
                       ELSE "available"]],
     blocked_events |->
        Kept([d \in 1..CalendarDays |->
                [date |-> CalendarDate(d), event |-> "Work"]],
             {d \in 1..CalendarDays : d % 3 = 0 \/ (d = 4 /\ v.shift = 1)}),
     vacation_preferences |-> [preferred_duration_days |-> 4 * v.mult]]

\* start_date <= date_str <= end_date: the value, or the TypeError of
\* comparing a str with None; the second comparison is only made when the
\* first holds
InRange(start_date, date_str, end_date) ==
    IF ~isinstance_str(start_date) THEN Raised("TypeError")
    ELSE IF ~str_le(start_date, date_str) THEN [value |-> FALSE]
    ELSE IF ~isinstance_str(end_date) THEN Raised("TypeError")
    ELSE [value |-> str_le(date_str, end_date)]

\* the keys of the entries kept, in their order
DatesOf(entries) == [i \in 1..Len(entries) |-> entries[i].date]

\* body of get_user_calendar
get_user_calendar_result(start_date, end_date) ==
    IF ~data.present
    THEN SearchFailed("Failed to retrieve calendar", FileNotFoundError)
    ELSE
      LET calendar_data == calendar_mock(data.variant)
          availability == calendar_data.availability
          events == calendar_data.blocked_events
          in_range == [i \in 1..Len(availability) |->
                         InRange(start_date, availability[i].date, end_date)]
          event_in_range == [i \in 1..Len(events) |->
                               InRange(start_date, events[i].date, end_date)]
      IN  IF \/ \E i \in 1..Len(availability) : "raised" \in DOMAIN in_range[i]
             \/ \E i \in 1..Len(events) :
                   "raised" \in DOMAIN event_in_range[i]
          THEN SearchFailed("Failed to retrieve calendar", "TypeError")
          ELSE
            [available_dates |->
                 DatesOf(Kept(availability,
                              {i \in 1..Len(availability) :
                                 /\ in_range[i].value
                                 /\ availability[i].status = "available"})),
             blocked_dates |->
                 DatesOf(Kept(availability,
                              {i \in 1..Len(availability) :
                                 /\ in_range[i].value
                                 /\ availability[i].status # "available"})),
             blocked_events |->
                 Kept(events, {i \in 1..Len(events) : event_in_range[i].value}),
             vacation_preferences |-> calendar_data.vacation_preferences]

\* the agent of session s calls get_user_calendar
get_user_calendar(s, start_date, end_date) ==
    /\ pc[s] = "agent"
    /\ last' = [op |-> "get_user_calendar", session |-> s,
                args |-> [start_date |-> start_date, end_date |-> end_date],
                result |-> get_user_calendar_result(start_date, end_date)]
    /\ UNCHANGED <<PAYMENT_AUTHORIZED, ui_vars, fixed, issued>>

\* body of get_user_preferences
get_user_preferences_result ==
    IF ~data.present
    THEN SearchFailed("Failed to retrieve preferences", FileNotFoundError)
    ELSE user_preferences(data.variant)

\* the agent of session s calls get_user_preferences
get_user_preferences(s) ==
    /\ pc[s] = "agent"
    /\ last' = [op |-> "get_user_preferences", session |-> s,
                args |-> <<>>,
                result |-> get_user_preferences_result]
    /\ UNCHANGED <<PAYMENT_AUTHORIZED, ui_vars, fixed, issued>>

\* ------------------------------------------------------------------------
\* Budget tool (src/agent/tools.py)
\* ------------------------------------------------------------------------
\* round(x, 2) and f"{x:.2f}" on thousandths, for an x that is not half way
\* between two hundredths
Round2(x) ==
    IF x >= 0 THEN ((x + 5) \div 10) * 10
    ELSE -((((-x) + 5) \div 10) * 10)

Abs(x) == IF x >= 0 THEN x ELSE -x

\* the keys of totals, with activities among them
BudgetCategories_with_activities == {"flights", "hotels", "activities"}

\* the keys of totals
BudgetCategories == {"flights", "hotels"}

\* the loop over the expenses: the totals, or the exception raised on the
\* way (an expense is a record; a key it lacks raises KeyError)
RECURSIVE AddExpenses(_, _)
AddExpenses(expenses, totals) ==
    IF Len(expenses) = 0 THEN [ok |-> TRUE, totals |-> totals]
    ELSE
      LET expense == Head(expenses)
      IN  IF "category" \notin DOMAIN expense
          THEN [ok |-> FALSE, exc |-> "KeyError"]
          ELSE IF expense.category \notin BudgetCategories
          THEN AddExpenses(Tail(expenses), totals)
          ELSE IF "amount" \notin DOMAIN expense
          THEN [ok |-> FALSE, exc |-> "KeyError"]
          ELSE AddExpenses(Tail(expenses),
                           [totals EXCEPT ![expense.category] =
                                              @ + expense.amount])

RECURSIVE SumValues(_, _)
SumValues(totals, keys) ==
    IF keys = {} THEN 0
    ELSE LET k == CHOOSE k \in keys : TRUE
         IN  totals[k] + SumValues(totals, keys \ {k})

\* the order totals.items() goes through the categories
CategoryOrder == <<"flights", "hotels", "activities">>

\* the warnings for the categories from place i on, a category at its limit
\* warned about too
RECURSIVE CategoryWarnings_at_limit(_, _, _)
CategoryWarnings_at_limit(totals, breakdown, i) ==
    IF i > Len(CategoryOrder) THEN <<>>
    ELSE
      LET category == CategoryOrder[i]
          rest == CategoryWarnings_at_limit(totals, breakdown, i + 1)
      IN  IF /\ category \in DOMAIN totals
             /\ category \in DOMAIN breakdown
             /\ totals[category] >= breakdown[category]
          THEN <<[exceeds |-> category,
                  spent |-> Round2(totals[category]),
                  limit |-> Round2(breakdown[category])]>> \o rest
          ELSE rest

\* the warnings for the categories from place i on
RECURSIVE CategoryWarnings(_, _, _)
CategoryWarnings(totals, breakdown, i) ==
    IF i > Len(CategoryOrder) THEN <<>>
    ELSE
      LET category == CategoryOrder[i]
          rest == CategoryWarnings(totals, breakdown, i + 1)
      IN  IF /\ category \in DOMAIN totals
             /\ category \in DOMAIN breakdown
             /\ totals[category] > breakdown[category]
          THEN <<[exceeds |-> category,
                  spent |-> Round2(totals[category]),
                  limit |-> Round2(breakdown[category])]>> \o rest
          ELSE rest

\* planned_expenses: a text that json.loads turns into a list of objects,
\* a text that is no JSON, or the JSON text of a number
Expenses(items) == [kind |-> "array", items |-> items]

NotJson == [kind |-> "malformed"]

JsonNumber == [kind |-> "number"]

\* body of calculate_budget
calculate_budget_result(planned_expenses) ==
    IF planned_expenses.kind = "malformed"
    THEN [error |-> <<"Invalid JSON format for planned_expenses">>]
    ELSE IF ~data.present
    THEN SearchFailed("Failed to calculate budget", FileNotFoundError)
    ELSE IF planned_expenses.kind # "array"
    THEN SearchFailed("Failed to calculate budget", "TypeError")
    ELSE
      LET budget_limits == user_preferences(data.variant).budget
          added == AddExpenses(planned_expenses.items,
                               [c \in BudgetCategories |-> 0])
      IN  IF ~added.ok
          THEN SearchFailed("Failed to calculate budget", added.exc)
          ELSE
            LET totals == added.totals
                total_spent == SumValues(totals, DOMAIN totals)
                remaining == budget_limits.total - total_spent
                within_budget == total_spent <= budget_limits.total
            IN  [total_spent |-> Round2(total_spent),
                 budget_limit |-> budget_limits.total,
                 remaining |-> Round2(remaining),
                 breakdown |-> totals,
                 within_budget |-> within_budget,
                 warnings |->
                     CategoryWarnings(totals, budget_limits.breakdown, 1)
                     \o (IF ~within_budget
                         THEN <<[exceeded_by |-> Round2(Abs(remaining))]>>
                         ELSE <<>>),
                 currency |-> budget_limits.currency,
                 note |-> "Activities not included"]

\* the agent of session s calls calculate_budget
calculate_budget(s, planned_expenses) ==
    /\ pc[s] = "agent"
    /\ last' = [op |-> "calculate_budget", session |-> s,
                args |-> [planned_expenses |-> planned_expenses],
                result |-> calculate_budget_result(planned_expenses)]
    /\ UNCHANGED <<PAYMENT_AUTHORIZED, ui_vars, fixed, issued>>

\* ------------------------------------------------------------------------
\* The application: sidebar, chat and the booking tools
\* ------------------------------------------------------------------------
Next ==
    \/ \E s \in Sessions, form \in Forms : save_payment_info(s, form)
    \/ \E s \in Sessions : update_payment_info(s)
    \/ \E s \in Sessions : clear_chat_history(s)
    \/ \E s \in Sessions : chat_input(s)
    \/ \E s \in Sessions, b \in BOOLEAN : agent_response(s, b)
    \/ \E s \in Sessions, id \in FlightIdInputs : book_flight(s, id)
    \/ \E s \in Sessions, id \in HotelIdInputs, d \in BookDateInputs :
          book_hotel(s, id, d[1], d[2])

Spec == Init /\ [][Next]_vars

\* ------------------------------------------------------------------------
\* Properties of the payment gate and the booking tools
\* ------------------------------------------------------------------------
BookOps == {"book_flight", "book_hotel"}

\* this step is an invocation of a booking tool
BookStep == last' # last /\ last'.op \in BookOps

GateOpen == PAYMENT_AUTHORIZED = "true"

FlightInCatalog(id) ==
    \E i \in 1..Len(flights_mock(data.variant)) :
        flights_mock(data.variant)[i].flight_id = id

HotelInCatalog(id) ==
    \E i \in 1..Len(hotels_mock(data.variant)) :
        hotels_mock(data.variant)[i].hotel_id = id

\* C1: whenever the gate is closed, a book_flight or book_hotel call returns
\* booking_status "failed" with action_required "setup_payment", whatever
\* the identifier and the dates are and whether or not the data files can be
\* loaded (so nothing is looked up before the gate is read); the result has
\* no booking_reference and no reference is issued.
C1_ClosedGateRefuses ==
    [][(BookStep /\ ~GateOpen) =>
          /\ last'.result.booking_status = "failed"
          /\ "action_required" \in DOMAIN last'.result
          /\ last'.result.action_required = "setup_payment"
          /\ "booking_reference" \notin DOMAIN last'.result
          /\ "error" \notin DOMAIN last'.result
          /\ issued' = issued]_vars

\* C1 witness: a hotel booking with a catalog id and a text that is no date,
\* refused at a closed gate while the data files are missing
C1_Witness ==
    /\ last.op = "book_hotel"
    /\ ~GateOpen
    /\ ~data.present
    /\ last.args.hotel_id = HotelId(1)
    /\ last.args.check_in = Soon
    /\ last.result = PaymentRequired

\* C2: a booking call returns "confirmed" only if the gate is open at the
\* moment of the call, and "update payment info" leaves the gate closed, so
\* that booking calls after it are refused until payment is configured again.
C2_ConfirmedOnlyWhenAuthorized ==
    [][/\ (BookStep /\ Confirmed(last'.result)) => GateOpen
       /\ (last' # last /\ last'.op = "update_payment_info")
             => PAYMENT_AUTHORIZED' # "true"]_vars

\* C2 witness: references were issued, then the gate was reset, and a later
\* booking call was refused
C2_Witness ==
    /\ last.op \in BookOps
    /\ issued # {}
    /\ ~GateOpen
    /\ last.result = PaymentRequired

\* C3: the gate has two states and starts closed; it opens only by a
\* "save payment info" submission with card number, expiry, CVV, cardholder
\* and the authorize box all supplied, and closes only by "update payment
\* info"; every other operation leaves it as it is.
C3_GateTransitions ==
    /\ PAYMENT_AUTHORIZED = "unset"
    /\ [](PAYMENT_AUTHORIZED \in {"unset", "true"})
    /\ [][/\ (~GateOpen /\ PAYMENT_AUTHORIZED' = "true") =>
               /\ last'.op = "save_payment_info"
               /\ last'.args.card_number # <<>>
               /\ last'.args.expiry # <<>>
               /\ last'.args.cvv # <<>>
               /\ last'.args.cardholder # <<>>
               /\ last'.args.authorize
          /\ (GateOpen /\ PAYMENT_AUTHORIZED' # "true") =>
               last'.op = "update_payment_info"
          /\ (last' # last /\ last'.op \notin {"save_payment_info",
                                               "update_payment_info"})
               => PAYMENT_AUTHORIZED' = PAYMENT_AUTHORIZED
          /\ (last' # last /\ last'.op = "save_payment_info"
                /\ last'.result.notice = "error")
               => PAYMENT_AUTHORIZED' = PAYMENT_AUTHORIZED]_vars

\* C3 witness: an incomplete form is submitted in one session while the gate
\* is open, and the gate stays open
C3_Witness ==
    /\ last.op = "save_payment_info"
    /\ last.result.notice = "error"
    /\ GateOpen

\* C4: a book_flight call on a catalog id with the gate open is confirmed
\* with a booking reference that no earlier booking of the process run
\* returned.
C4_ReferencesUnique ==
    [][(BookStep /\ last'.op = "book_flight" /\ GateOpen /\ data.present
          /\ FlightInCatalog(last'.args.flight_id)) =>
          /\ Confirmed(last'.result)
          /\ last'.result.booking_reference \notin issued]_vars

\* C5: with the gate open and the catalog loaded, booking an id that is not
\* in the catalog fails with the not-found message and no booking reference;
\* for book_hotel whatever the dates are.
C5_UnknownIdNotFound ==
    (last.op \in BookOps /\ GateOpen /\ data.present) =>
        /\ (last.op = "book_flight" /\ ~FlightInCatalog(last.args.flight_id))
             => last.result = [booking_status |-> "failed",
                               message |-> <<"Flight not found",
                                             last.args.flight_id>>]
        /\ (last.op = "book_hotel" /\ ~HotelInCatalog(last.args.hotel_id))
             => last.result = [booking_status |-> "failed",
                               message |-> <<"Hotel not found",
                                             last.args.hotel_id>>]

\* C5 witness: an unknown hotel id with a check-in text that is no date
C5_Witness ==
    /\ last.op = "book_hotel"
    /\ GateOpen
    /\ data.present
    /\ ~HotelInCatalog(last.args.hotel_id)
    /\ last.args.check_in = Soon
    /\ last.result.booking_status = "failed"
    /\ "message" \in DOMAIN last.result

\* ------------------------------------------------------------------------
\* The search tools on their own: one session's agent calls them over every
\* pricing of the catalogs
\* ------------------------------------------------------------------------
Caller == CHOOSE s \in Sessions : TRUE

DataInputs == [present : BOOLEAN, variant : DataVariants]

OriginInputs ==
    {<<"J","a","k","a","r","t","a">>, <<"J","A","K","A","R","T","A">>, <<"c","g","k">>,
     <<"d","p","s">>, <<"M","a","r","s">>}

DestinationInputs ==
    {<<"B","a","l","i">>, <<"b","A","L","I">>, <<"d","e","n","p","a","s","a","r">>,
     <<"D","P","S">>, <<"T","o","k","y","o">>, <<"c","g","k">>, <<>>}

PassengerInputs == {-1, 0, 1, 2}

ClassInputs == {"economy", "business", "first"}

InitFlights ==
    /\ InitApp
    /\ data \in DataInputs
    /\ request \in [tool : {"search_flights"}, origin : OriginInputs,
                    destination : DestinationInputs,
                    passengers : PassengerInputs,
                    travel_class : ClassInputs]

NextFlights ==
    \/ chat_input(Caller)
    \/ search_flights(Caller, request.origin, request.destination,
                      request.passengers, request.travel_class)

SpecFlights == InitFlights /\ [][NextFlights]_vars

HotelDestinationInputs ==
    {<<"B","a","l","i">>, <<"B","A","L","I">>, <<"u","b","u","d">>, <<"T","o","k","y","o">>,
     <<"M","a","r","s">>, <<>>}

\* <<check_in, check_out>>
StayInputs ==
    {<<Oct01, Oct04>>, <<Oct04, Oct01>>, <<Oct01, Oct01>>, <<Oct31, Nov01>>,
     <<Oct01, Oct4Unpadded>>, <<Oct01, Nov01>>, <<Feb30, Oct04>>,
     <<Oct01, Slashed>>, <<Soon, Soon>>}

GuestInputs == {1, 2}

\* in tenths
MinRatingInputs == {35, 40, 45, 51}

InitHotels ==
    /\ InitApp
    /\ data \in DataInputs
    /\ request \in [tool : {"search_hotels"},
                    destination : HotelDestinationInputs,
                    stay : StayInputs, guests : GuestInputs,
                    min_rating : MinRatingInputs]

NextHotels ==
    \/ chat_input(Caller)
    \/ search_hotels(Caller, request.destination, request.stay[1],
                     request.stay[2], request.guests, request.min_rating)

SpecHotels == InitHotels /\ [][NextHotels]_vars

\* json.dumps of a list of str: '["a", "b"]', or without the blanks
RECURSIVE Joined(_, _)
Joined(items, separator) ==
    IF Len(items) = 0 THEN <<>>
    ELSE IF Len(items) = 1 THEN <<"\"">> \o items[1] \o <<"\"">>
    ELSE Joined(SubSeq(items, 1, Len(items) - 1), separator)
         \o separator \o <<"\"">> \o items[Len(items)] \o <<"\"">>

json_dumps(items, separator) == <<"[">> \o Joined(items, separator) \o <<"]">>

\* the interest lists asked for, and the forms they are passed in
Hike == <<"h","i","k","e">>

ItemsInputs ==
    {<<>>, <<Beach>>, <<Art, Food>>, <<Beach, Art, Food>>, <<Hike>>,
     <<Hike, Food>>, <<<<>>>>, <<<<"[","a","r","t","]">>>>, <<<<"[">>>>}

FormInputs == {"absent", "single", "collection", "serialized", "compact"}

\* the interests argument that passes the list in the form
Encoded(items, form) ==
    CASE form = "absent" -> None
      [] form = "single" -> Str(items[1])
      [] form = "collection" -> List(items)
      [] form = "serialized" -> Str(json_dumps(items, <<",", " ">>))
      [] form = "compact" -> Str(json_dumps(items, <<",">>))

ActivityDestinationInputs ==
    {<<"B","a","l","i">>, <<"U","B","U","D">>, <<"t","o","k","y","o">>, <<"M","a","r","s">>, <<>>}

InitActivities ==
    /\ InitApp
    /\ data \in DataInputs
    /\ request \in {r \in [tool : {"search_activities"},
                          destination : ActivityDestinationInputs,
                          items : ItemsInputs, form : FormInputs] :
                      /\ r.form = "single" => Len(r.items) = 1
                      /\ r.form = "absent" => r.items = <<>>}

NextActivities ==
    \/ chat_input(Caller)
    \/ search_activities(Caller, request.destination,
                         Encoded(request.items, request.form))

SpecActivities == InitActivities /\ [][NextActivities]_vars

\* the expenses a list is made of, in thousandths: at a limit, a fraction
\* of a hundredth over, of a category that is not budgeted, without an
\* amount, without a category
ExpenseInputs ==
    {[category |-> "flights", amount |-> 60000],
     [category |-> "flights", amount |-> 40004],
     [category |-> "hotels", amount |-> 40000],
     [category |-> "hotels", amount |-> 60000],
     [category |-> "activities", amount |-> 500000],
     [category |-> "activities"],
     [amount |-> 10000]}

RECURSIVE ListsUpTo(_, _)
ListsUpTo(S, n) ==
    IF n = 0 THEN {<<>>}
    ELSE ListsUpTo(S, n - 1)
         \cup {Append(l, x) : l \in {m \in ListsUpTo(S, n - 1) :
                                       Len(m) = n - 1}, x \in S}

InitBudget ==
    /\ InitApp
    /\ data \in DataInputs
    /\ request \in [tool : {"calculate_budget"},
                    planned_expenses :
                        {NotJson, JsonNumber}
                        \cup {Expenses(l) :
                                l \in ListsUpTo(ExpenseInputs, MaxExpenses)}]

NextBudget ==
    \/ chat_input(Caller)
    \/ calculate_budget(Caller, request.planned_expenses)

SpecBudget == InitBudget /\ [][NextBudget]_vars

\* the bounds of a calendar range: the date texts, two days of the calendar
\* that no other text names, and the empty str
CalendarDateInputs == DateInputs \cup {CalendarDate(2), CalendarDate(3), <<>>}

InitCalendar ==
    /\ InitApp
    /\ data \in DataInputs
    /\ request \in [tool : {"get_user_calendar"},
                    start_date : CalendarDateInputs,
                    end_date : CalendarDateInputs]

NextCalendar ==
    \/ chat_input(Caller)
    \/ get_user_calendar(Caller, request.start_date, request.end_date)

SpecCalendar == InitCalendar /\ [][NextCalendar]_vars

\* book_hotel on its own: payment is configured in one session, whose agent
\* books any hotel of the catalog, or an unknown one, for any stay
HotelIdRequests ==
    {HotelId(i) : i \in 0..(HotelsInCity + 1)} \cup {HotelId(99)}

InitBookHotel ==
    /\ InitApp
    /\ data \in DataInputs
    /\ request \in [tool : {"book_hotel"}, hotel_id : HotelIdRequests,
                    stay : StayInputs]

NextBookHotel ==
    \/ save_payment_info(Caller, CompleteForm)
    \/ chat_input(Caller)
    \/ book_hotel(Caller, request.hotel_id, request.stay[1], request.stay[2])

SpecBookHotel == InitBookHotel /\ [][NextBookHotel]_vars

\* a stay searched for and a stay booked: payment is configured in one
\* session, whose agent searches hotels or books one
InitStay ==
    /\ InitApp
    /\ data \in DataInputs
    /\ request \in
         [tool : {"search_hotels"}, destination : HotelDestinationInputs,
          stay : StayInputs, min_rating : MinRatingInputs]
         \cup [tool : {"book_hotel"}, hotel_id : HotelIdRequests,
               stay : StayInputs]

NextStay ==
    \/ save_payment_info(Caller, CompleteForm)
    \/ chat_input(Caller)
    \/ /\ request.tool = "search_hotels"
       /\ search_hotels(Caller, request.destination, request.stay[1],
                        request.stay[2], 1, request.min_rating)
    \/ /\ request.tool = "book_hotel"
       /\ book_hotel(Caller, request.hotel_id, request.stay[1],
                     request.stay[2])

SpecStay == InitStay /\ [][NextStay]_vars

\* the three search tools, each with the calls of its own specification
InitSearch ==
    /\ InitApp
    /\ data \in DataInputs
    /\ request \in
         [tool : {"search_flights"}, origin : OriginInputs,
          destination : DestinationInputs, passengers : PassengerInputs,
          travel_class : ClassInputs]
         \cup [tool : {"search_hotels"}, destination : HotelDestinationInputs,
               stay : StayInputs, guests : GuestInputs,
               min_rating : MinRatingInputs]
         \cup {r \in [tool : {"search_activities"},
                      destination : ActivityDestinationInputs,
                      items : ItemsInputs, form : FormInputs] :
                 /\ r.form = "single" => Len(r.items) = 1
                 /\ r.form = "absent" => r.items = <<>>}

NextSearch ==
    \/ chat_input(Caller)
    \/ /\ request.tool = "search_flights"
       /\ search_flights(Caller, request.origin, request.destination,
                         request.passengers, request.travel_class)
    \/ /\ request.tool = "search_hotels"
       /\ search_hotels(Caller, request.destination, request.stay[1],
                        request.stay[2], request.guests, request.min_rating)
    \/ /\ request.tool = "search_activities"
       /\ search_activities(Caller, request.destination,
                            Encoded(request.items, request.form))

SpecSearch == InitSearch /\ [][NextSearch]_vars

\* every tool on its own, with the arguments that make it fail: texts that
\* are no date, an expense list that is no JSON, no list or lacks a key, an
\* origin or destination that is no str, a serialized interest list that is
\* no JSON, each with and without the data files
FaultRequests ==
    [tool : {"get_user_calendar"},
     start_date : {Oct01, Soon, NotAStr}, end_date : {Oct04, Soon, NotAStr}]
    \cup [tool : {"get_user_preferences"}]
    \cup [tool : {"search_flights"},
          origin : {<<"J","a","k","a","r","t","a">>, NotAStr},
          destination : {<<"B","a","l","i">>, NotAStr}]
    \cup [tool : {"search_hotels"},
          destination : {<<"B","a","l","i">>, NotAStr},
          stay : {<<Oct01, Oct04>>, <<Soon, Soon>>, <<Feb30, Oct04>>}]
    \cup [tool : {"search_activities"},
          destination : {<<"B","a","l","i">>, NotAStr},
          interests : {None, Str(<<"[">>), Str(<<"[","a","r","t","]">>),
                       List(<<Beach>>)}]
    \cup [tool : {"calculate_budget"},
          planned_expenses :
              {NotJson, JsonNumber,
               Expenses(<<[category |-> "flights"]>>),
               Expenses(<<[amount |-> 10000]>>),
               Expenses(<<[category |-> "flights", amount |-> 60000]>>)}]
    \cup [tool : {"book_flight"}, flight_id : FlightIdInputs]
    \cup [tool : {"book_hotel"}, hotel_id : HotelIdInputs,
          stay : BookDateInputs]

InitTools ==
    /\ InitApp
    /\ data \in DataInputs
    /\ request \in FaultRequests

NextTools ==
    \/ save_payment_info(Caller, CompleteForm)
    \/ chat_input(Caller)
    \/ /\ request.tool = "get_user_calendar"
       /\ get_user_calendar(Caller, request.start_date, request.end_date)
    \/ /\ request.tool = "get_user_preferences"
       /\ get_user_preferences(Caller)
    \/ /\ request.tool = "search_flights"
       /\ search_flights(Caller, request.origin, request.destination,
                         1, "economy")
    \/ /\ request.tool = "search_hotels"
       /\ search_hotels(Caller, request.destination, request.stay[1],
                        request.stay[2], 1, 40)
    \/ /\ request.tool = "search_activities"
       /\ search_activities(Caller, request.destination, request.interests)
    \/ /\ request.tool = "calculate_budget"
       /\ calculate_budget(Caller, request.planned_expenses)
    \/ /\ request.tool = "book_flight"
       /\ book_flight(Caller, request.flight_id)
    \/ /\ request.tool = "book_hotel"
       /\ book_hotel(Caller, request.hotel_id, request.stay[1],
                     request.stay[2])

SpecTools == InitTools /\ [][NextTools]_vars

\* ------------------------------------------------------------------------
\* Properties of the search tools
\* ------------------------------------------------------------------------
Min(a, b) == IF a < b THEN a ELSE b

\* a name resolved through the city table without regard to case, an
\* unlisted name upper-cased as it is
ResolvedCode(name) ==
    LET listed == {e \in city_to_airport : e[1] = str_lower(name)}
    IN  IF listed = {} THEN str_upper(name)
        ELSE (CHOOSE e \in listed : TRUE)[2]

\* C6: search_flights returns catalog flights whose origin, destination and
\* class equal the resolved origin, the resolved destination and the
\* requested class, each with total_price = price x passengers, in ascending
\* order of total_price, as many as there are matches up to 5, and no match
\* left out has a smaller total_price than a returned one.
C6_FlightSearch ==
    (last.op = "search_flights" /\ data.present) =>
      LET a == last.args
          r == last.result
          cat == flights_mock(data.variant)
          matches == {i \in 1..Len(cat) :
                        /\ cat[i].origin = ResolvedCode(a.origin)
                        /\ cat[i].destination = ResolvedCode(a.destination)
                        /\ cat[i].class = a.travel_class}
          total(i) == cat[i].price * a.passengers
      IN  /\ "flights" \in DOMAIN r
          /\ Len(r.flights) = Min(TopFlights, Cardinality(matches))
          /\ \A k \in 1..Len(r.flights) :
               \E i \in matches :
                 /\ r.flights[k].flight_id = cat[i].flight_id
                 /\ r.flights[k].origin = cat[i].origin
                 /\ r.flights[k].destination = cat[i].destination
                 /\ r.flights[k].class = cat[i].class
                 /\ r.flights[k].total_price = total(i)
          /\ \A k, l \in 1..Len(r.flights) :
               /\ k < l => r.flights[k].total_price <= r.flights[l].total_price
               /\ k # l => r.flights[k].flight_id # r.flights[l].flight_id
          /\ \A i \in matches :
               (\A k \in 1..Len(r.flights) :
                    r.flights[k].flight_id # cat[i].flight_id)
               => \A k \in 1..Len(r.flights) :
                    r.flights[k].total_price <= total(i)

\* C6 witness: "JAKARTA" to "bALI" for two passengers in economy finds more
\* than five flights and returns five
C6_Witness ==
    /\ last.op = "search_flights"
    /\ last.args.origin = <<"J","A","K","A","R","T","A">>
    /\ last.args.destination = <<"b","A","L","I">>
    /\ last.args.passengers = 2
    /\ "total_results" \in DOMAIN last.result
    /\ last.result.total_results > TopFlights
    /\ Len(last.result.flights) = TopFlights
    /\ last.result.flights[1].total_price < last.result.flights[5].total_price

\* C7: every hotel search_hotels returns has rating >= min_rating and a city
\* containing the query without regard to case, carries nights = check_out -
\* check_in in whole days and total_price = price_per_night x nights; the
\* list is in (rating descending, total_price ascending) order and is the
\* first 5 of that order.
C7_HotelSearch ==
    (last.op = "search_hotels" /\ "hotels" \in DOMAIN last.result) =>
      LET a == last.args
          r == last.result
          cat == hotels_mock(data.variant)
          nights == strptime(a.check_out).ordinal
                    - strptime(a.check_in).ordinal
          matches == {i \in 1..Len(cat) :
                        /\ cat[i].rating >= a.min_rating
                        /\ str_in(str_lower(a.destination),
                                  str_lower(cat[i].destination_city))}
          total(i) == cat[i].price_per_night * nights
          Precedes(r1, t1, r2, t2) == r1 > r2 \/ (r1 = r2 /\ t1 < t2)
      IN  /\ Len(r.hotels) = Min(TopHotels, Cardinality(matches))
          /\ \A k \in 1..Len(r.hotels) :
               \E i \in matches :
                 /\ r.hotels[k].hotel_id = cat[i].hotel_id
                 /\ r.hotels[k].rating = cat[i].rating
                 /\ r.hotels[k].destination_city = cat[i].destination_city
                 /\ r.hotels[k].nights = nights
                 /\ r.hotels[k].total_price = total(i)
          /\ \A k, l \in 1..Len(r.hotels) :
               /\ k < l => ~Precedes(r.hotels[l].rating,
                                     r.hotels[l].total_price,
                                     r.hotels[k].rating,
                                     r.hotels[k].total_price)
               /\ k # l => r.hotels[k].hotel_id # r.hotels[l].hotel_id
          /\ \A i \in matches :
               (\A k \in 1..Len(r.hotels) :
                    r.hotels[k].hotel_id # cat[i].hotel_id)
               => \A k \in 1..Len(r.hotels) :
                    ~Precedes(cat[i].rating, total(i),
                              r.hotels[k].rating, r.hotels[k].total_price)

\* C7 witness: "BALI" for three nights at rating 4.0 or more finds more than
\* five hotels and returns five, the best rated first
C7_Witness ==
    /\ last.op = "search_hotels"
    /\ last.args.destination = <<"B","A","L","I">>
    /\ last.args.check_in = Oct01
    /\ last.args.check_out = Oct04
    /\ last.args.min_rating = 40
    /\ "total_results" \in DOMAIN last.result
    /\ last.result.total_results > TopHotels
    /\ Len(last.result.hotels) = TopHotels
    /\ last.result.hotels[1].nights = 3
    /\ last.result.hotels[1].total_price
         = 3 * last.result.hotels[1].price_per_night
    /\ last.result.hotels[1].rating > last.result.hotels[5].rating

\* C8: a confirmed book_hotel reports the nights and charges the total_price
\* that search_hotels reports for the same hotel with the same dates,
\* whatever the destination query and the minimum rating of the search are.
C8_BookingMatchesSearch ==
    (last.op = "book_hotel" /\ Confirmed(last.result)) =>
      \A d \in HotelDestinationInputs, r \in MinRatingInputs :
        LET found == search_hotels_result(d, last.args.check_in,
                                          last.args.check_out, 1, r)
        IN  /\ "hotels" \in DOMAIN found
            /\ \A k \in 1..Len(found.hotels) :
                 found.hotels[k].hotel_id = last.args.hotel_id =>
                   /\ found.hotels[k].nights = last.result.nights
                   /\ found.hotels[k].total_price = last.result.total_charged

\* C8 witness: a hotel booked for three nights that the search for "Bali"
\* at rating 4.0 or more lists for the same dates
C8_Witness ==
    /\ last.op = "book_hotel"
    /\ Confirmed(last.result)
    /\ last.result.nights = 3
    /\ \E k \in 1..TopHotels :
         LET found == search_hotels_result(<<"B","a","l","i">>, last.args.check_in,
                                          last.args.check_out, 1, 40)
         IN  /\ k <= Len(found.hotels)
             /\ found.hotels[k].hotel_id = last.args.hotel_id
             /\ found.hotels[k].total_price = last.result.total_charged
             /\ last.result.total_charged > 0

\* the activities returned are `matches` of the catalog in descending order
\* of rating, as many as there are up to 10, none left out rated higher than
\* a returned one
ActivitiesAre(returned, cat, matches) ==
    /\ Len(returned) = Min(TopActivities, Cardinality(matches))
    /\ \A k \in 1..Len(returned) : \E i \in matches : returned[k] = cat[i]
    /\ \A k, l \in 1..Len(returned) :
         /\ k < l => returned[k].rating >= returned[l].rating
         /\ k # l => returned[k].activity_id # returned[l].activity_id
    /\ \A i \in matches :
         (\A k \in 1..Len(returned) : returned[k] # cat[i])
         => \A k \in 1..Len(returned) : returned[k].rating >= cat[i].rating

InCity(destination, activity) ==
    str_in(str_lower(destination), str_lower(activity.destination_city))

\* the forms a list of interests can be passed in
FormsOf(items) ==
    {"collection", "serialized", "compact"}
    \cup (IF Len(items) = 1 THEN {"single"} ELSE {})

\* C9 as claimed: the result is the activities in the queried city, and when
\* interests is provided those whose category is in the interest list, best
\* rated first and cut to 10; and every form of passing the same interest
\* list gives the same result.
C9_AsClaimed ==
    (last.op = "search_activities" /\ data.present) =>
      LET cat == activities_mock(data.variant)
          matches == {i \in 1..Len(cat) :
                        /\ InCity(request.destination, cat[i])
                        /\ (request.form # "absent"
                              => InSeq(request.items, cat[i].category))}
      IN  /\ "activities" \in DOMAIN last.result
          /\ ActivitiesAre(last.result.activities, cat, matches)
          /\ request.form # "absent" =>
               \A f \in FormsOf(request.items) :
                 search_activities_result(request.destination,
                                          Encoded(request.items, f))
                   = last.result

\* C9: the result is the activities in the queried city, and when interests
\* is a non-empty list those whose category is in it, best rated first and
\* cut to 10. An absent argument, an empty list (as a collection or
\* serialized) and a str that begins with "[" without being a JSON array
\* filter nothing. A list passed as a collection or serialized, with or
\* without blanks, gives the same result, and so does a single value that
\* does not begin with "[".
C9_InterestSearch ==
    (last.op = "search_activities" /\ data.present) =>
      LET cat == activities_mock(data.variant)
          bracketed == /\ request.form = "single"
                       /\ Len(request.items[1]) > 0
                       /\ request.items[1][1] = "["
          filtering == /\ request.form # "absent"
                       /\ request.items # <<>>
                       /\ ~bracketed
          matches == {i \in 1..Len(cat) :
                        /\ InCity(request.destination, cat[i])
                        /\ (filtering
                              => InSeq(request.items, cat[i].category))}
      IN  /\ "activities" \in DOMAIN last.result
          /\ ActivitiesAre(last.result.activities, cat, matches)
          /\ (request.form # "absent" /\ ~bracketed) =>
               \A f \in FormsOf(request.items) :
                 (f = "single" => request.items[1] = <<>>
                                  \/ request.items[1][1] # "[")
                 => search_activities_result(request.destination,
                                             Encoded(request.items, f))
                      = last.result

\* C9 witness: three interests passed as a serialized list find more than
\* ten activities in Bali, and ten are returned
C9_Witness ==
    /\ last.op = "search_activities"
    /\ request.form = "serialized"
    /\ request.items = <<Beach, Art, Food>>
    /\ last.args.interests = Str(<<"[","\"","b","e","a","c","h","\"",","," ","\"","a","r","t","\"",","," ","\"","f","o","o","d","\"","]">>)
    /\ "total_results" \in DOMAIN last.result
    /\ last.result.total_results > TopActivities
    /\ Len(last.result.activities) = TopActivities
    /\ last.result.activities[1].rating
         > last.result.activities[TopActivities].rating

\* ------------------------------------------------------------------------
\* Properties of the budget tool
\* ------------------------------------------------------------------------
WellFormed(items) ==
    \A i \in 1..Len(items) :
        {"category", "amount"} \subseteq DOMAIN items[i]

\* the sum of the amounts of the expenses of the categories
RECURSIVE Spent(_, _)
Spent(items, categories) ==
    IF Len(items) = 0 THEN 0
    ELSE (IF Head(items).category \in categories THEN Head(items).amount
          ELSE 0)
         + Spent(Tail(items), categories)

BudgetTotal == user_preferences(data.variant).budget.total

\* C10 as claimed: total_spent is the sum of the flights and hotels amounts,
\* remaining is the budget total less total_spent, and within_budget holds
\* exactly when total_spent is at most the budget total.
C10_AsClaimed ==
    (/\ last.op = "calculate_budget"
     /\ data.present
     /\ last.args.planned_expenses.kind = "array"
     /\ WellFormed(last.args.planned_expenses.items)) =>
      LET r == last.result
          spent == Spent(last.args.planned_expenses.items,
                         {"flights", "hotels"})
      IN  /\ "total_spent" \in DOMAIN r
          /\ r.total_spent = spent
          /\ r.remaining = BudgetTotal - r.total_spent
          /\ r.within_budget <=> (r.total_spent <= BudgetTotal)

\* C10: for a well-formed expense list only the flights and hotels amounts
\* are summed; total_spent is that sum rounded to hundredths, remaining is
\* the budget total less the sum, rounded to hundredths, and within_budget
\* holds exactly when the sum itself is at most the budget total. When every
\* amount is in whole hundredths the rounding changes nothing.
C10_BudgetTotals ==
    (/\ last.op = "calculate_budget"
     /\ data.present
     /\ last.args.planned_expenses.kind = "array"
     /\ WellFormed(last.args.planned_expenses.items)) =>
      LET r == last.result
          items == last.args.planned_expenses.items
          spent == Spent(items, {"flights", "hotels"})
          nearest == CHOOSE c \in {spent - (spent % 10), spent - (spent % 10) + 10} :
                       2 * (IF c > spent THEN c - spent ELSE spent - c) < 10
      IN  /\ "total_spent" \in DOMAIN r
          /\ r.breakdown = [flights |-> Spent(items, {"flights"}),
                            hotels |-> Spent(items, {"hotels"})]
          /\ r.total_spent = nearest
          /\ r.total_spent - spent \in -4..4
          /\ r.remaining - (BudgetTotal - spent) \in -4..4
          /\ r.remaining % 10 = 0
          /\ r.within_budget <=> (spent <= BudgetTotal)
          /\ (\A i \in 1..Len(items) : items[i].amount % 10 = 0) =>
               /\ r.total_spent = spent
               /\ r.remaining = BudgetTotal - r.total_spent
               /\ r.within_budget <=> (r.total_spent <= BudgetTotal)

\* C10 witness: an activities expense of 500 beside flights of 60 and hotels
\* of 40 leaves total_spent at 100, the budget total, within budget
C10_Witness ==
    /\ last.op = "calculate_budget"
    /\ last.args.planned_expenses.kind = "array"
    /\ \E i \in 1..Len(last.args.planned_expenses.items) :
         last.args.planned_expenses.items[i]
           = [category |-> "activities", amount |-> 500000]
    /\ "total_spent" \in DOMAIN last.result
    /\ last.result.total_spent = 100000
    /\ last.result.remaining = 0
    /\ last.result.within_budget

\* ------------------------------------------------------------------------
\* Warnings of the budget tool
\* ------------------------------------------------------------------------
\* the places of the warnings about category c
WarningsAbout(warnings, c) ==
    {k \in 1..Len(warnings) :
       /\ "exceeds" \in DOMAIN warnings[k]
       /\ warnings[k].exceeds = c}

\* the places of the warnings about the total
TotalWarnings(warnings) ==
    {k \in 1..Len(warnings) : "exceeded_by" \in DOMAIN warnings[k]}

\* x, shown with two decimals, reads as y
ReadsAs(x, y) == y % 10 = 0 /\ x - y \in -4..4

\* C11: for a well-formed expense list there is one warning about flights,
\* and one about hotels, exactly when the category has a configured limit
\* and the sum spent on it is strictly greater; there is one warning about
\* the total exactly when the sum of both is strictly greater than the
\* budget total, and it names the sum less the budget total, to two
\* decimals. There are no other warnings, so spending equal to a limit is
\* not warned about.
C11_Warnings ==
    (/\ last.op = "calculate_budget"
     /\ data.present
     /\ last.args.planned_expenses.kind = "array"
     /\ WellFormed(last.args.planned_expenses.items)) =>
      LET r == last.result
          items == last.args.planned_expenses.items
          limits == user_preferences(data.variant).budget.breakdown
          spent == Spent(items, {"flights", "hotels"})
      IN  /\ "warnings" \in DOMAIN r
          /\ \A c \in {"flights", "hotels"} :
               LET about == WarningsAbout(r.warnings, c)
                   over == c \in DOMAIN limits /\ Spent(items, {c}) > limits[c]
               IN  /\ Cardinality(about) = (IF over THEN 1 ELSE 0)
                   /\ \A k \in about :
                        /\ ReadsAs(Spent(items, {c}), r.warnings[k].spent)
                        /\ ReadsAs(limits[c], r.warnings[k].limit)
          /\ LET total == TotalWarnings(r.warnings)
             IN  /\ Cardinality(total) = (IF spent > BudgetTotal THEN 1 ELSE 0)
                 /\ \A k \in total :
                      /\ ReadsAs(spent - BudgetTotal, r.warnings[k].exceeded_by)
                      /\ k = Len(r.warnings)
          /\ Len(r.warnings)
               = Cardinality(WarningsAbout(r.warnings, "flights"))
                 + Cardinality(WarningsAbout(r.warnings, "hotels"))
                 + Cardinality(TotalWarnings(r.warnings))

\* C11 witness: flights of 60 are at their limit and hotels of 60 over
\* theirs of 50: the warnings are one about hotels and one about the total,
\* exceeded by 20
C11_Witness ==
    /\ last.op = "calculate_budget"
    /\ data.present
    /\ data.variant.shift = 0
    /\ last.args.planned_expenses
         = Expenses(<<[category |-> "flights", amount |-> 60000],
                      [category |-> "hotels", amount |-> 60000]>>)
    /\ "warnings" \in DOMAIN last.result
    /\ last.result.warnings
         = <<[exceeds |-> "hotels", spent |-> 60000, limit |-> 50000],
             [exceeded_by |-> 20000]>>

\* ------------------------------------------------------------------------
\* Properties of the calendar tool
\* ------------------------------------------------------------------------
\* a is b or comes before b in the order of a dictionary
RECURSIVE LexLeq(_, _)
LexLeq(a, b) ==
    IF a = <<>> THEN TRUE
    ELSE IF b = <<>> THEN FALSE
    ELSE IF Head(a) = Head(b) THEN LexLeq(Tail(a), Tail(b))
    ELSE ord(Head(a)) < ord(Head(b))

\* text is a date written YYYY-MM-DD in full
PaddedDate(text) == Len(text) = 10 /\ strptime(text).ok

NoRepeats(seq) == \A k, l \in 1..Len(seq) : k # l => seq[k] # seq[l]

\* C13: with the calendar file there, get_user_calendar(start, end) returns
\* no error; a date of the calendar is in available_dates exactly when
\* start <= date <= end (as texts, bounds included) and its status is
\* available, and in blocked_dates exactly when it is in that range with
\* another status; neither list holds anything else or a date twice;
\* blocked_events are the events with a date in the range; for bounds that
\* are dates written in full the range is the range of days; and start > end
\* gives three empty lists.
C13_CalendarWindow ==
    (last.op = "get_user_calendar" /\ data.present) =>
      LET r == last.result
          start_date == request.start_date
          end_date == request.end_date
          calendar == calendar_mock(data.variant)
          days == calendar.availability
          events == calendar.blocked_events
          within(d) == LexLeq(start_date, d) /\ LexLeq(d, end_date)
      IN  /\ DOMAIN r = {"available_dates", "blocked_dates",
                         "blocked_events", "vacation_preferences"}
          /\ \A i \in 1..Len(days) :
               /\ InSeq(r.available_dates, days[i].date)
                    <=> (within(days[i].date) /\ days[i].status = "available")
               /\ InSeq(r.blocked_dates, days[i].date)
                    <=> (within(days[i].date) /\ days[i].status # "available")
               /\ ~(/\ InSeq(r.available_dates, days[i].date)
                    /\ InSeq(r.blocked_dates, days[i].date))
          /\ \A k \in 1..Len(r.available_dates) :
               \E i \in 1..Len(days) : days[i].date = r.available_dates[k]
          /\ \A k \in 1..Len(r.blocked_dates) :
               \E i \in 1..Len(days) : days[i].date = r.blocked_dates[k]
          /\ NoRepeats(r.available_dates) /\ NoRepeats(r.blocked_dates)
          /\ \A i \in 1..Len(events) :
               InSeq(r.blocked_events, events[i]) <=> within(events[i].date)
          /\ \A k \in 1..Len(r.blocked_events) :
               InSeq(events, r.blocked_events[k])
          /\ NoRepeats(r.blocked_events)
          /\ (PaddedDate(start_date) /\ PaddedDate(end_date)) =>
               \A i \in 1..Len(days) :
                 within(days[i].date)
                   <=> /\ strptime(start_date).ordinal
                            <= strptime(days[i].date).ordinal
                       /\ strptime(days[i].date).ordinal
                            <= strptime(end_date).ordinal
          /\ ~LexLeq(start_date, end_date) =>
               /\ r.available_dates = <<>>
               /\ r.blocked_dates = <<>>
               /\ r.blocked_events = <<>>

\* C13 witness: the range from 1 to 4 October has both of its bounds among
\* the available dates, 3 October blocked with its event, and not 5 October
C13_Witness ==
    /\ last.op = "get_user_calendar"
    /\ last.args = [start_date |-> Oct01, end_date |-> Oct04]
    /\ data.present /\ data.variant.shift = 0
    /\ last.result.available_dates = <<Oct01, CalendarDate(2), Oct04>>
    /\ last.result.blocked_dates = <<CalendarDate(3)>>
    /\ Len(last.result.blocked_events) = 1
    /\ last.result.blocked_events[1].date = CalendarDate(3)

\* ------------------------------------------------------------------------
\* Faults at the boundary of the tools
\* ------------------------------------------------------------------------
ToolOps ==
    {"get_user_calendar", "get_user_preferences", "search_flights",
     "search_hotels", "search_activities", "calculate_budget",
     "book_flight", "book_hotel"}

\* C12: whatever a tool is called with, the call ends with a result being
\* returned, never with an exception leaving the tool.
C12_NoFaultPropagates ==
    last.op \in ToolOps => "raised" \notin DOMAIN last.result

\* ------------------------------------------------------------------------
\* Searches that find nothing
\* ------------------------------------------------------------------------
SearchOps == {"search_flights", "search_hotels", "search_activities"}

\* the key of the list in the result of a search tool
ListKey ==
    CASE last.op = "search_flights" -> "flights"
      [] last.op = "search_hotels" -> "hotels"
      [] last.op = "search_activities" -> "activities"

\* the arguments of the search are well formed: the dates of a hotel search
\* are dates
WellFormedSearch ==
    last.op = "search_hotels" =>
        strptime(request.stay[1]).ok /\ strptime(request.stay[2]).ok

\* no record of the catalog can match the search: no flight on the route in
\* the class, no hotel in the city with the rating, no activity in the city
NothingToFind ==
    CASE last.op = "search_flights" ->
           \A i \in 1..Len(flights_mock(data.variant)) :
             LET f == flights_mock(data.variant)[i]
             IN  ~(/\ f.origin = ResolvedCode(request.origin)
                   /\ f.destination = ResolvedCode(request.destination)
                   /\ f.class = request.travel_class)
      [] last.op = "search_hotels" ->
           \A i \in 1..Len(hotels_mock(data.variant)) :
             LET h == hotels_mock(data.variant)[i]
             IN  ~(/\ InCity(request.destination, h)
                   /\ h.rating >= request.min_rating)
      [] last.op = "search_activities" ->
           \A i \in 1..Len(activities_mock(data.variant)) :
             ~InCity(request.destination, activities_mock(data.variant)[i])

\* C14: a search returns an error result only when its data file is missing
\* or its input is malformed; with the file there and well-formed input, a
\* search that nothing can match returns an empty list and a message, and
\* any result with an empty list carries a message.
C14_NoResultsIsNoError ==
    last.op \in SearchOps =>
      LET r == last.result
      IN  /\ "raised" \notin DOMAIN r
          /\ "error" \in DOMAIN r => (~data.present \/ ~WellFormedSearch)
          /\ (data.present /\ WellFormedSearch) =>
               /\ DOMAIN r \in {{ListKey, "message"},
                                {ListKey, "total_results"}}
               /\ NothingToFind => r[ListKey] = <<>>
               /\ r[ListKey] = <<>> <=> "message" \in DOMAIN r

\* C14 witness: no hotel of Bali is rated 5.1, and the search returns an
\* empty list with a message
C14_Witness ==
    /\ last.op = "search_hotels"
    /\ data.present
    /\ request.destination = <<"B","a","l","i">>
    /\ request.stay = <<Oct01, Oct04>>
    /\ request.min_rating = 51
    /\ DOMAIN last.result = {"hotels", "message"}
    /\ last.result.hotels = <<>>

\* ------------------------------------------------------------------------
\* Stays that end before they begin
\* ------------------------------------------------------------------------
\* both texts are dates and the second is not after the first
EndsNoLater(check_in, check_out) ==
    /\ strptime(check_in).ok /\ strptime(check_out).ok
    /\ strptime(check_out).ordinal <= strptime(check_in).ordinal

\* C15: for dates with check_out <= check_in, search_hotels with its data
\* file returns no error but its matching hotels, as many as there are up to
\* 5, each with nights = check_out - check_in, zero or less, and total_price
\* = price_per_night x nights, zero or less; and book_hotel with the gate
\* open and a hotel of the catalog returns confirmed with those nights and
\* total_charged = price_per_night x nights, zero or less.
C15_NoStayValidation ==
    [][/\ (/\ last' # last
           /\ last'.op = "search_hotels"
           /\ data.present
           /\ EndsNoLater(last'.args.check_in, last'.args.check_out)) =>
            LET a == last'.args
                r == last'.result
                cat == hotels_mock(data.variant)
                nights == strptime(a.check_out).ordinal
                          - strptime(a.check_in).ordinal
                matches == {i \in 1..Len(cat) :
                              /\ cat[i].rating >= a.min_rating
                              /\ InCity(a.destination, cat[i])}
            IN  /\ DOMAIN r \in {{"hotels", "message"},
                                 {"hotels", "total_results"}}
                /\ Len(r.hotels) = Min(TopHotels, Cardinality(matches))
                /\ \A k \in 1..Len(r.hotels) :
                     /\ r.hotels[k].nights = nights
                     /\ r.hotels[k].nights <= 0
                     /\ r.hotels[k].total_price
                          = r.hotels[k].price_per_night * nights
                     /\ r.hotels[k].total_price <= 0
       /\ (/\ BookStep
           /\ last'.op = "book_hotel"
           /\ GateOpen
           /\ data.present
           /\ HotelInCatalog(last'.args.hotel_id)
           /\ EndsNoLater(last'.args.check_in, last'.args.check_out)) =>
            LET a == last'.args
                r == last'.result
                cat == hotels_mock(data.variant)
                nights == strptime(a.check_out).ordinal
                          - strptime(a.check_in).ordinal
            IN  /\ Confirmed(r)
                /\ r.nights = nights
                /\ \E i \in 1..Len(cat) :
                     /\ cat[i].hotel_id = a.hotel_id
                     /\ r.total_charged = cat[i].price_per_night * nights
                /\ r.total_charged <= 0
      ]_vars

\* C15 witness: a hotel booked from 4 October to 1 October is confirmed for
\* minus three nights with a negative charge
C15_Witness ==
    /\ last.op = "book_hotel"
    /\ last.args.check_in = Oct04
    /\ last.args.check_out = Oct01
    /\ Confirmed(last.result)
    /\ last.result.nights = -3
    /\ last.result.total_charged < 0

\* ------------------------------------------------------------------------
\* The sidebar of a session and the gate of the process
\* ------------------------------------------------------------------------
\* C16: in every reachable state, each session's payment_configured is true
\* exactly when PAYMENT_AUTHORIZED, which the booking tools read, is 'true'.
C16_FlagsMatchGate ==
    \A s \in Sessions : payment_configured[s] <=> GateOpen

====
